---- MODULE Spec2Model ----
(***************************************************************************)
(* A model of the agentdms-admin Django backend: the JWT token service,    *)
(* the password service, the login and password reset views, the           *)
(* permission gate and the project views (get_projects, get_project,      *)
(* create_project, clone_project).                                         *)
(*                                                                         *)
(* Time is counted in whole seconds (PyJWT truncates datetimes to seconds  *)
(* when it encodes exp and iat).  Python dicts are records; Python's None  *)
(* is the record None.  Lists whose order no handler reads (the roles and  *)
(* permissions of a user) are sets.                                        *)
(***************************************************************************)
EXTENDS Integers, Sequences, FiniteSets, Bags, TLC

VARIABLES
    users,            \* rows of users.User
    userRoles,        \* rows of users.UserRole
    rolePermissions,  \* rows of users.RolePermission, as <<role_id, permission name>>
    DEBUG,            \* settings.DEBUG
    now,              \* the wall clock (datetime.utcnow()), in seconds
    nextUserRoleId,   \* the next id of the UserRole table (auto-increment)
    edits,            \* how many times a table has been edited outside the views
    storeLog,         \* the UserRole and RolePermission tables as each edit left them
                      \* since the oldest login request under way arrived
    ticks,            \* how many times the clock has been advanced by the environment
    issued,           \* the tokens login has handed out, each with the user data it was
                      \* given and the path (database or demo) that issued it
    projects,         \* rows of projects.Project; the id of a row is its index
    customFields,     \* rows of projects.CustomField; the id of a row is its index
    resp,             \* the response of the last request answered
    inflight          \* the handlers that are between two statements: a bag, for two
                      \* requests may be equal and as far as each other

vars == <<users, userRoles, rolePermissions, DEBUG, nextUserRoleId, edits, storeLog, now,
          ticks, issued,
          projects, customFields, resp, inflight>>

storeVars == <<users, userRoles, rolePermissions, DEBUG, nextUserRoleId, edits, storeLog>>
projectVars == <<projects, customFields>>

(***************************************************************************)
(* Bounds of the model.                                                    *)
(***************************************************************************)
MaxTokens == 1      \* tokens issued in one behaviour
MaxTicks == 2       \* clock advances in one behaviour
MaxProjects == 2    \* Project rows in one behaviour
MaxEdits == 2       \* edits of the tables outside the views in one behaviour
MaxInflight == 2    \* requests being handled at one time

(***************************************************************************)
(* Python's None.                                                          *)
(***************************************************************************)
None == [py_none |-> TRUE]

(***************************************************************************)
(* settings.JWT_ISSUER, settings.JWT_AUDIENCE, settings.JWT_SECRET_KEY.    *)
(* Their values live in the settings module; only their identity matters.  *)
(***************************************************************************)
JWT_ISSUER == "AgentDmsAdmin"
JWT_AUDIENCE == "AgentDmsAdminUsers"
JWT_SECRET_KEY == "system-secret"

\* timedelta(hours=24)
TokenLifetimeHours == 24
TokenLifetime == TokenLifetimeHours * 3600

StandardClaims == {"exp", "iat", "iss", "aud"}

(***************************************************************************)
(* PasswordService (bcrypt).  A bcrypt hash string embeds its salt; the    *)
(* one-way function is modelled as the pair (salt, password).  A stored    *)
(* value that is not a bcrypt hash has form "malformed"; the empty string  *)
(* has form "empty".                                                       *)
(***************************************************************************)
EmptyHash == [form |-> "empty", salt |-> "", pw |-> ""]
MalformedHash == [form |-> "malformed", salt |-> "", pw |-> ""]

hash_password(password, salt) ==
    [form |-> "bcrypt", salt |-> salt, pw |-> password]

\* bcrypt.checkpw raises ValueError("Invalid salt") on a value that is no bcrypt
\* hash; verify_password has no try/except, so the exception leaves it.
verify_password(password, hashed_password) ==
    IF hashed_password.form = "bcrypt"
    THEN [raised |-> FALSE, value |-> hashed_password.pw = password]
    ELSE [raised |-> TRUE, value |-> FALSE]

\* AbstractUser.check_password against the platform's own password column:
\* false, never an exception, for an unusable or unknown encoding.
check_password(user, password) ==
    user.password.form = "django" /\ user.password.pw = password

(***************************************************************************)
(* The credential store.                                                   *)
(***************************************************************************)
RoleNames == <<"Administrator", "User">>    \* the Role table: name by id
RoleIds == DOMAIN RoleNames
PermissionNames == {"workspace.admin", "document.view"}

UserRow(id, username, email, password_hash, password, is_immutable) ==
    [id |-> id, username |-> username, email |-> email,
     password_hash |-> password_hash, password |-> password,
     is_immutable |-> is_immutable]

DjangoPassword(pw) == [form |-> "django", pw |-> pw]
UnusablePassword == [form |-> "unusable", pw |-> ""]

\* User.objects.get(email=email): the row, or None for User.DoesNotExist
\* (email is unique).
GetUserByEmail(email) ==
    IF \E u \in users : u.email = email
    THEN CHOOSE u \in users : u.email = email
    ELSE None

\* dict.update(other)
DictUpdate(d, other) ==
    [k \in DOMAIN d \cup DOMAIN other |-> IF k \in DOMAIN other THEN other[k] ELSE d[k]]

\* The ids of a user dict are ints when the dict comes from the serializers and
\* strs when it is one of the demo users: the tag keeps 1 and '1' apart.
PyInt(n) == [int |-> n]
PyStr(s) == [str |-> s]

(***************************************************************************)
(* The queries of login's                                                  *)
(* prefetch_related('user_roles__role__role_permissions__permission').     *)
(* Each level is one SELECT, sent when the one before has returned; the    *)
(* connection is in autocommit, so each reads the tables as they are when  *)
(* it runs.  The Role and Permission tables do not change.                 *)
(***************************************************************************)
\* SELECT ... FROM user_roles WHERE user_id IN (ids)
SelectUserRoles(user_ids) == {ur \in userRoles : ur.user_id \in user_ids}

\* SELECT ... FROM role_permissions WHERE role_id IN (ids)
SelectRolePermissions(role_ids) == {rp \in rolePermissions : rp[1] \in role_ids}

\* The object the prefetch assembles: the User row, each of its UserRole rows
\* holding its Role, each Role holding the RolePermission rows read for it.
PrefetchedUser(user, user_role_rows, role_permission_rows) ==
    DictUpdate(user,
        [user_roles |->
            {DictUpdate(ur, [role |-> [id |-> ur.role_id, name |-> RoleNames[ur.role_id],
                                       role_permissions |->
                                          {rp \in role_permission_rows : rp[1] = ur.role_id}]])
               : ur \in user_role_rows}])

\* The whole of lines 41-43 run against one state of the tables: the
\* prefetched user, or None for User.DoesNotExist.
GetUserPrefetched(email) ==
    LET user == GetUserByEmail(email)
    IN IF user = None THEN None
       ELSE LET rows == SelectUserRoles({user.id})
            IN PrefetchedUser(user, rows, SelectRolePermissions({ur.role_id : ur \in rows}))

\* UserRoleSerializer: fields id, user_id, role_id, role_name (role.name), created_at
UserRoleSerializer(ur) ==
    [id |-> PyInt(ur.id), user_id |-> PyInt(ur.user_id), role_id |-> PyInt(ur.role_id),
     role_name |-> ur.role.name, created_at |-> ur.created_at]

\* obj.user_roles.all(): the prefetched UserRole rows of the user.
user_roles(obj) == obj.user_roles

\* user_role.role.role_permissions.all(): the prefetched RolePermission rows
\* of the role.
role_permissions(user_role) == user_role.role.role_permissions

\* The orders in which a query without ORDER BY may return the rows S.
Orderings(S) ==
    {f \in [1..Cardinality(S) -> S] : \A i, j \in DOMAIN f : i # j => f[i] # f[j]}

\* The two loops of get_permissions over the rows in the order given: each
\* permission name of each role is added to the set built so far.
RECURSIVE AddPermissions(_, _)
AddPermissions(rows, permissions) ==
    IF rows = <<>> THEN permissions
    ELSE AddPermissions(Tail(rows),
                        permissions \cup {rp[2] : rp \in role_permissions(Head(rows))})

\* get_permissions with the set emptied at every role instead of once.
get_permissions_last_role(obj) ==
    IF user_roles(obj) = {} THEN {}
    ELSE LET rows == CHOOSE f \in Orderings(user_roles(obj)) : TRUE
         IN AddPermissions(<<rows[Len(rows)]>>, {})

\* UserSerializer.get_permissions: the set of permission names over the
\* user's roles (list(set) in the source), the rows taken in the order the
\* query returns them.
get_permissions(obj) ==
    AddPermissions(CHOOSE f \in Orderings(user_roles(obj)) : TRUE, {})

\* UserSerializer(user).data
UserSerializer(obj) ==
    [id |-> PyInt(obj.id), username |-> obj.username, email |-> obj.email,
     is_immutable |-> obj.is_immutable,
     roles |-> {UserRoleSerializer(ur) : ur \in user_roles(obj)},
     permissions |-> get_permissions(obj)]

(***************************************************************************)
(* JwtService.  A token is its three segments: the header, the payload and *)
(* the base64url text of the signature.  HS256 is modelled as an ideal     *)
(* MAC: the signature bytes are determined by, and determine, the key and  *)
(* the signing input (header and payload segments).  The 32 signature      *)
(* bytes take 43 base64url characters; the last character carries 4 bits   *)
(* of the signature and 2 bits that the decoder (base64.urlsafe_b64decode, *)
(* non-strict) discards: `trailing` holds those 2 bits, which the encoder  *)
(* writes as 0.  A text that does not split into three decodable segments  *)
(* has wellformed = FALSE.                                                 *)
(***************************************************************************)
HMAC(key, header, payload) == [key |-> key, header |-> header, payload |-> payload]

HS256Header == [alg |-> "HS256", typ |-> "JWT"]

TrailingBits == 0..3

Min2(a, b) == IF a <= b THEN a ELSE b

\* jwt.encode(payload, key, algorithm='HS256')
jwt_encode(payload, key) ==
    [wellformed |-> TRUE, header |-> HS256Header, payload |-> payload,
     signature |-> HMAC(key, HS256Header, payload), trailing |-> 0]

\* The dict generate_token signs: its argument, updated in place with the
\* standard claims.  t_exp and t_iat are the two readings of datetime.utcnow().
TokenPayload_48h(user_data, t_exp, t_iat) ==
    DictUpdate(user_data, [iss |-> JWT_ISSUER, aud |-> JWT_AUDIENCE,
                           exp |-> t_exp + 2 * TokenLifetime, iat |-> t_iat])

TokenPayload(user_data, t_exp, t_iat) ==
    DictUpdate(user_data, [iss |-> JWT_ISSUER, aud |-> JWT_AUDIENCE,
                           exp |-> t_exp + TokenLifetime, iat |-> t_iat])

generate_token(user_data, t_exp, t_iat) ==
    jwt_encode(TokenPayload(user_data, t_exp, t_iat), JWT_SECRET_KEY)

\* jwt.decode(token, key, algorithms=['HS256'], audience=..., issuer=...) at
\* time t: the name of the exception it raises ("" for none) and the payload.
\* Every exception named here is a subclass of jwt.InvalidTokenError.
jwt_decode(token, key, audience, issuer, t) ==
    LET p == token.payload
        err ==
          IF ~token.wellformed THEN "DecodeError"
          ELSE IF token.header.alg # "HS256" THEN "InvalidAlgorithmError"
          ELSE IF token.signature # HMAC(key, token.header, p) THEN "InvalidSignatureError"
          ELSE IF "iat" \in DOMAIN p /\ p.iat > t THEN "ImmatureSignatureError"
          ELSE IF "exp" \in DOMAIN p /\ p.exp <= t THEN "ExpiredSignatureError"
          ELSE IF "iss" \notin DOMAIN p THEN "MissingRequiredClaimError"
          ELSE IF p.iss # issuer THEN "InvalidIssuerError"
          ELSE IF "aud" \notin DOMAIN p THEN "MissingRequiredClaimError"
          ELSE IF p.aud # audience THEN "InvalidAudienceError"
          ELSE ""
    IN [error |-> err, payload |-> p]

\* validate_token with jwt.decode told not to verify the signature.
validate_token_unverified(token, t) ==
    IF token.wellformed /\ "exp" \in DOMAIN token.payload /\ token.payload.exp > t
    THEN [k \in DOMAIN token.payload \ StandardClaims |-> token.payload[k]]
    ELSE None

\* JwtService.validate_token at time t: the user data, or None.
validate_token_at(token, t) ==
    LET r == jwt_decode(token, JWT_SECRET_KEY, JWT_AUDIENCE, JWT_ISSUER, t)
    IN IF r.error = ""
       THEN [k \in DOMAIN r.payload \ StandardClaims |-> r.payload[k]]
       ELSE None

\* validate_token as a session lookup would have it: the permissions read from
\* the store at validation time.
validate_token_lookup(token) ==
    LET d == validate_token_at(token, now)
    IN IF d = None \/ GetUserPrefetched(d.email) = None THEN d
       ELSE DictUpdate(d, [permissions |-> get_permissions(GetUserPrefetched(d.email))])

validate_token(token) == validate_token_at(token, now)

(***************************************************************************)
(* The Authorization header of a request: None when absent, otherwise the  *)
(* first seven characters and the rest.                                    *)
(***************************************************************************)
Header(prefix, token) == [prefix |-> prefix, token |-> token]
Bearer(token) == Header("Bearer ", token)

\* has_permission without the test of the scheme: any header that holds a valid
\* token with the permission passes
has_permission_any_scheme(request, permission_name) ==
    LET auth_header == request.auth_header
    IN IF auth_header # None
       THEN LET user_data == validate_token(auth_header.token)
            IN IF user_data # None /\ DOMAIN user_data # {}
                  /\ "permissions" \in DOMAIN user_data
               THEN permission_name \in user_data.permissions
               ELSE FALSE
       ELSE FALSE

\* projects.views.has_permission
has_permission(request, permission_name) ==
    LET auth_header == request.auth_header
    IN IF auth_header # None /\ auth_header.prefix = "Bearer "
       THEN LET user_data == validate_token(auth_header.token)
            IN IF user_data # None /\ DOMAIN user_data # {}
                  /\ "permissions" \in DOMAIN user_data
               THEN permission_name \in user_data.permissions
               ELSE FALSE
       ELSE FALSE

(***************************************************************************)
(* authentication.serializers.LoginSerializer                               *)
(***************************************************************************)
\* LoginSerializer: email is an EmailField, password a non-blank CharField.
LoginSerializerValid(email, password) ==
    email # "not-an-email" /\ password # ""

(***************************************************************************)
(* Requests being handled.  The views open no transaction and the          *)
(* connection is in autocommit: every statement a handler sends to the     *)
(* database is committed when it returns, and other requests are served    *)
(* between two statements of a handler.  A handler under way is a record:  *)
(* its view, its request, the time it arrived, the statement it sends      *)
(* next, and its local variables.                                          *)
(***************************************************************************)
Handler(op, request, at, pc, loc) ==
    [op |-> op, request |-> request, at |-> at, pc |-> pc, loc |-> loc]

\* the handlers under way, and how many of them are in the set S
Handlers == BagToSet(inflight)
NumberOf(S) == BagCardinality([h \in Handlers \cap S |-> inflight[h]])
LoginsUnderWay == {h \in Handlers : h.op = "login"}

\* the server takes up another request
Accepting == BagCardinality(inflight) < MaxInflight

\* the bag of handlers when h has been taken up, and when h has answered
Started(h) == inflight (+) SetToBag({h})
Ended(h) == inflight (-) SetToBag({h})

Answer(op, request, at, loc, status, body) ==
    [op |-> op, request |-> request, at |-> at, loc |-> loc,
     status |-> status, body |-> body]

\* The handler h goes on to statement pc with the local variables loc.
Continue(h, pc, loc) == Ended(h) (+) SetToBag({Handler(h.op, h.request, h.at, pc, loc)})

(***************************************************************************)
(* authentication.views.login                                              *)
(***************************************************************************)
\* The hardcoded demo credentials; t is datetime.utcnow() of created_at.
DemoUser(email, password, t) ==
    IF email = "admin@agentdms.com" /\ password = "admin123"
    THEN [id |-> PyStr("1"), username |-> "admin", email |-> email, is_immutable |-> FALSE,
          roles |-> {[id |-> PyStr("1"), user_id |-> PyStr("1"), role_id |-> PyStr("1"),
                      role_name |-> "Administrator", created_at |-> t]},
          permissions |-> {"workspace.admin"}]
    ELSE IF email = "gill.dan2@gmail.com" /\ password = "admin123"
    THEN [id |-> PyStr("2"), username |-> "gill.dan2", email |-> email, is_immutable |-> FALSE,
          roles |-> {[id |-> PyStr("2"), user_id |-> PyStr("2"), role_id |-> PyStr("2"),
                      role_name |-> "User", created_at |-> t]},
          permissions |-> {"document.view"}]
    ELSE IF email = "superadmin@agentdms.com" /\ password = "sarasa123"
    THEN [id |-> PyStr("0"), username |-> "superadmin", email |-> email, is_immutable |-> TRUE,
          roles |-> {[id |-> PyStr("0"), user_id |-> PyStr("0"), role_id |-> PyStr("0"),
                      role_name |-> "Super Admin", created_at |-> t]},
          permissions |-> {"workspace.admin", "document.view", "document.edit",
                           "document.delete", "document.print", "document.annotate"}]
    ELSE None

\* Lines 47-54: the custom bcrypt hash when present, otherwise the platform's
\* own check.
PasswordMatch(user, password) ==
    IF user.password_hash.form # "empty"
    THEN verify_password(password, user.password_hash)
    ELSE [raised |-> FALSE, value |-> check_password(user, password)]

\* Lines 62-76 and 139-151: generate_token updates user_data in place, and the
\* response holds that same dict.  t_exp and t_iat are the readings of utcnow()
\* in generate_token (lines 32 and 33 of the service), t_expires the one that
\* follows it in the view (lines 67 and 142).
LoginSuccess(user_data, via, t_exp, t_iat, t_expires) ==
    [status |-> 200,
     body |-> [token |-> generate_token(user_data, t_exp, t_iat),
               user |-> TokenPayload(user_data, t_exp, t_iat),
               expires_at |-> t_expires + TokenLifetime],
     issue |-> [token |-> generate_token(user_data, t_exp, t_iat), data |-> user_data,
                via |-> via]]

LoginFailure(status, message) ==
    [status |-> status, body |-> [message |-> message], issue |-> None]

\* The answer of the except clause, lines 161-163.
LoginError == LoginFailure(500, "An error occurred during authentication")

\* The view, given what line 41 returned (user: the prefetched user, or None
\* for User.DoesNotExist) and the readings of the clock in the order the view
\* takes them: clock[1] for created_at of a demo user, clock[2] and clock[3]
\* for exp and iat, clock[4] for expires_at.
login(email, password, user, clock) ==
    IF ~LoginSerializerValid(email, password)
    THEN [status |-> 400, body |-> [errors |-> "invalid"], issue |-> None]
    ELSE
    LET match == IF user = None THEN [raised |-> FALSE, value |-> FALSE]
                 ELSE PasswordMatch(user, password)
        demo_user == DemoUser(email, password, clock[1])
    IN IF match.raised
       THEN LoginError
       ELSE IF user # None /\ match.value
       THEN LoginSuccess(UserSerializer(user), "database", clock[2], clock[3], clock[4])
       ELSE IF demo_user # None
       THEN LoginSuccess(demo_user, "demo", clock[2], clock[3], clock[4])
       ELSE LoginFailure(401,
              IF ~DEBUG THEN "Invalid email or password"
              ELSE IF user # None THEN "Incorrect password" ELSE "User not found")

\* The seconds that pass between two successive readings of the clock.
NoGaps == <<0, 0, 0>>
ClockGaps == {NoGaps, <<1, 0, 0>>, <<0, 1, 0>>, <<0, 0, 1>>}

ClockReadings(t, gaps) ==
    <<t, t + gaps[1], t + gaps[1] + gaps[2], t + gaps[1] + gaps[2] + gaps[3]>>

\* Lines 27-43: the serializer, and the SELECT of the User row.
\* fail: the SELECT raises something other than User.DoesNotExist.
login_get_user(email, password, fail) ==
    LET request == [email |-> email, password |-> password]
        user == GetUserByEmail(email)
        invalid == login(email, password, None, ClockReadings(now, NoGaps))
        answer(r, raised) ==
            /\ resp' = Answer("login", request, now, [user |-> None, raised |-> raised],
                              r.status, r.body)
            /\ inflight' = inflight
    IN /\ Accepting
       /\ Cardinality(issued) + NumberOf(LoginsUnderWay) < MaxTokens
       /\ fail => LoginSerializerValid(email, password)
       /\ IF ~LoginSerializerValid(email, password) THEN answer(invalid, FALSE)
          ELSE IF fail THEN answer(LoginError, TRUE)
          ELSE /\ inflight' = Started(
                      Handler("login", request, now,
                              IF user = None THEN "respond" ELSE "user_roles",
                              [user |-> user, user_roles |-> {}, role_permissions |-> {},
                               log |-> Len(storeLog), raised |-> FALSE]))
               /\ resp' = resp
       /\ UNCHANGED <<storeVars, now, ticks, issued, projectVars>>

\* Lines 41-43, the prefetch 'user_roles__role__role_permissions__permission':
\* one SELECT for each level, the next sent when the last returned rows.  The
\* UserRole rows of the user, the Role rows of these, the RolePermission rows
\* of those roles, the Permission rows of these.  The Role and Permission
\* tables are never written.
login_prefetch(h) ==
    /\ h \in Handlers
    /\ h.op = "login"
    /\ h.pc \in {"user_roles", "role", "role_permissions", "permission"}
    /\ inflight' =
          IF h.pc = "user_roles"
          THEN LET rows == SelectUserRoles({h.loc.user.id})
               IN Continue(h, IF rows = {} THEN "respond" ELSE "role",
                           [h.loc EXCEPT !.user_roles = rows])
          ELSE IF h.pc = "role"
          THEN Continue(h, "role_permissions", h.loc)
          ELSE IF h.pc = "role_permissions"
          THEN LET rows == SelectRolePermissions({ur.role_id : ur \in h.loc.user_roles})
               IN Continue(h, IF rows = {} THEN "respond" ELSE "permission",
                           [h.loc EXCEPT !.role_permissions = rows])
          ELSE Continue(h, "respond", h.loc)
    /\ UNCHANGED <<storeVars, now, ticks, issued, projectVars, resp>>

\* The states of the store that a login under way may still be compared with:
\* all of them while another login is under way, the last one otherwise.
LogAfter(h) ==
    IF \E g \in BagToSet(Ended(h)) : g.op = "login"
    THEN storeLog ELSE <<storeLog[Len(storeLog)]>>

\* Lines 161-163: the prefetch query the handler sends next raises.
login_except(h) ==
    /\ h \in Handlers
    /\ h.op = "login"
    /\ h.pc \in {"user_roles", "role", "role_permissions", "permission"}
    /\ resp' = Answer("login", h.request, h.at, [h.loc EXCEPT !.raised = TRUE],
                      LoginError.status, LoginError.body)
    /\ inflight' = Ended(h)
    /\ storeLog' = LogAfter(h)
    /\ UNCHANGED <<users, userRoles, rolePermissions, DEBUG, nextUserRoleId, edits,
                   now, ticks, issued, projectVars>>

\* Lines 45-163: everything after the queries.  The clock is read up to four
\* times, `gaps` apart.
login_respond(h, gaps) ==
    LET user == IF h.loc.user = None THEN None
                ELSE PrefetchedUser(h.loc.user, h.loc.user_roles, h.loc.role_permissions)
        clock == ClockReadings(now, gaps)
        r == login(h.request.email, h.request.password, user, clock)
    IN /\ h \in Handlers
       /\ h.op = "login"
       /\ h.pc = "respond"
       /\ r.issue = None => gaps = NoGaps
       /\ (r.issue # None /\ r.issue.via = "database") => gaps[1] = 0
       /\ issued' = IF r.issue = None THEN issued ELSE issued \cup {r.issue}
       /\ now' = IF r.issue = None THEN now ELSE clock[4]
       /\ resp' = Answer("login", h.request, h.at, h.loc, r.status, r.body)
       /\ inflight' = Ended(h)
       /\ storeLog' = LogAfter(h)
       /\ UNCHANGED <<users, userRoles, rolePermissions, DEBUG, nextUserRoleId, edits,
                      ticks, projectVars>>

(***************************************************************************)
(* authentication.views.forgot_password and reset_password.  A reset token *)
(* is a text: its first seventeen characters and the rest.                 *)
(***************************************************************************)
ResetTokenText(head, rest) == [head |-> head, rest |-> rest]

\* str.startswith
StartsWith(text, prefix) == text.head = prefix

\* ForgotPasswordSerializer: email is an EmailField.
ForgotPasswordSerializerValid(email) == email # "not-an-email"

\* ResetPasswordSerializer: token and new_password are non-blank CharFields.
ResetPasswordSerializerValid(token, new_password) ==
    token # ResetTokenText("", "") /\ new_password # ""

\* forgot_password that tells the caller when no account has the address.
forgot_password_reveals(email, fail) ==
    IF ~ForgotPasswordSerializerValid(email)
    THEN [status |-> 400, body |-> [errors |-> "invalid"]]
    ELSE IF fail
    THEN [status |-> 500, body |-> [message |-> "An error occurred while processing your request"]]
    ELSE IF GetUserByEmail(email) = None
    THEN [status |-> 404, body |-> [message |-> "User not found"]]
    ELSE [status |-> 200,
          body |-> [message |-> "If an account with that email exists, a password reset link has been sent."]]

\* The whole view; fail: the query of the User table raises something other
\* than User.DoesNotExist.  The row found is only logged.
forgot_password(email, fail) ==
    IF ~ForgotPasswordSerializerValid(email)
    THEN [status |-> 400, body |-> [errors |-> "invalid"]]
    ELSE IF fail
    THEN [status |-> 500, body |-> [message |-> "An error occurred while processing your request"]]
    ELSE LET user == GetUserByEmail(email)
         IN [status |-> 200,
             body |-> [message |-> "If an account with that email exists, a password reset link has been sent."]]

\* The whole view: the token is compared with a fixed prefix and nothing is
\* read from or written to the store.
reset_password(token, new_password) ==
    IF ~ResetPasswordSerializerValid(token, new_password)
    THEN [status |-> 400, body |-> [errors |-> "invalid"]]
    ELSE IF token = ResetTokenText("", "") \/ new_password = ""
    THEN [status |-> 400, body |-> [message |-> "Invalid reset token or password"]]
    ELSE IF StartsWith(token, "demo-reset-token-")
    THEN [status |-> 200, body |-> [message |-> "Password has been reset successfully"]]
    ELSE [status |-> 400, body |-> [message |-> "Invalid or expired reset token"]]

ForgotPassword(email, fail) ==
    LET r == forgot_password(email, fail)
    IN /\ r.status = 400 => ~fail
       /\ resp' = [op |-> "forgot_password", request |-> [email |-> email, fail |-> fail],
                   status |-> r.status, body |-> r.body]
       /\ UNCHANGED <<inflight, storeVars, now, ticks, issued, projectVars>>

ResetPassword(token, new_password) ==
    LET r == reset_password(token, new_password)
    IN /\ resp' = [op |-> "reset_password",
                   request |-> [token |-> token, new_password |-> new_password],
                   status |-> r.status, body |-> r.body]
       /\ UNCHANGED <<inflight, storeVars, now, ticks, issued, projectVars>>


(***************************************************************************)
(* The clock.                                                              *)
(***************************************************************************)
ClockSteps == {1, TokenLifetime}

Tick(d) ==
    /\ ticks < MaxTicks
    /\ ticks' = ticks + 1
    /\ now' = now + d
    /\ UNCHANGED <<inflight, storeVars, issued, projectVars, resp>>

(***************************************************************************)
(* Edits of the credential store.  No view of the service writes these     *)
(* tables; rows are granted and revoked through the admin site.  Each edit *)
(* is one committed statement; storeLog keeps the tables it leaves while a  *)
(* login request is under way.                                             *)
(***************************************************************************)
Edited(user_roles_rows, role_permissions_rows) ==
    /\ edits < MaxEdits
    /\ edits' = edits + 1
    /\ userRoles' = user_roles_rows
    /\ rolePermissions' = role_permissions_rows
    /\ storeLog' = LET store == [userRoles |-> user_roles_rows,
                                  rolePermissions |-> role_permissions_rows]
                    IN IF LoginsUnderWay # {}
                       THEN Append(storeLog, store) ELSE <<store>>
    /\ UNCHANGED <<inflight, users, DEBUG, now, ticks, issued, projectVars, resp>>

GrantRole(user_id, role_id) ==
    /\ \E u \in users : u.id = user_id
    /\ ~\E ur \in userRoles : ur.user_id = user_id /\ ur.role_id = role_id
    /\ nextUserRoleId' = nextUserRoleId + 1
    /\ Edited(userRoles \cup {[id |-> nextUserRoleId, user_id |-> user_id,
                                role_id |-> role_id, created_at |-> now]},
              rolePermissions)

RevokeRole(ur) ==
    /\ ur \in userRoles
    /\ nextUserRoleId' = nextUserRoleId
    /\ Edited(userRoles \ {ur}, rolePermissions)

GrantPermission(role_id, permission) ==
    /\ <<role_id, permission>> \notin rolePermissions
    /\ nextUserRoleId' = nextUserRoleId
    /\ Edited(userRoles, rolePermissions \cup {<<role_id, permission>>})

RevokePermission(rp) ==
    /\ rp \in rolePermissions
    /\ nextUserRoleId' = nextUserRoleId
    /\ Edited(userRoles, rolePermissions \ {rp})

(***************************************************************************)
(* Initial states: a credential store as provisioning may leave it.        *)
(***************************************************************************)
Bob(password_hash, password) ==
    UserRow(1, "bob", "bob@example.com", password_hash, password, FALSE)
StoredAdmin ==
    UserRow(2, "admin", "admin@agentdms.com", hash_password("secret", "s2"),
            UnusablePassword, TRUE)

ProvisionedStore == {Bob(hash_password("secret", "s1"), UnusablePassword), StoredAdmin}

InitialStores ==
    { {Bob(hash_password("secret", "s1"), UnusablePassword)},
      {Bob(MalformedHash, UnusablePassword)},
      {Bob(EmptyHash, DjangoPassword("secret"))},
      ProvisionedStore }

LoginEmails == {"admin@agentdms.com", "bob@example.com", "ghost@example.com", "not-an-email"}
LoginPasswords == {"admin123", "secret", "wrong"}

NoResponse == [op |-> "none", status |-> 0]

StoreInit(stores, debug) ==
    /\ users \in stores
    /\ userRoles = {[id |-> 1, user_id |-> 1, role_id |-> 2, created_at |-> 0]}
    /\ rolePermissions = {<<1, "workspace.admin">>, <<2, "document.view">>}
    /\ storeLog = << [userRoles |-> {[id |-> 1, user_id |-> 1, role_id |-> 2, created_at |-> 0]},
                     rolePermissions |-> {<<1, "workspace.admin">>, <<2, "document.view">>}] >>
    /\ nextUserRoleId = 2
    /\ edits = 0
    /\ DEBUG \in debug
    /\ now = 0
    /\ ticks = 0
    /\ issued = {}
    /\ resp = NoResponse
    /\ inflight = EmptyBag

(***************************************************************************)
(* projects.models: Project and CustomField.  Null is SQL NULL.  The audit *)
(* timestamps of BaseEntity are left out; nothing in the views reads them  *)
(* except to print them.                                                   *)
(***************************************************************************)
Null == "<null>"

ProjectRow(name, description, file_name) ==
    [name |-> name, description |-> description, file_name |-> file_name,
     is_active |-> TRUE, is_archived |-> FALSE, modified_by |-> Null]

\* CustomField.objects.create(project=..., **field_data): the columns not given
\* take the defaults of the model.
CustomFieldDefaults ==
    [description |-> Null, is_required |-> FALSE, is_default |-> FALSE,
     default_value |-> Null, order |-> 0, role_visibility |-> "all",
     user_list_options |-> Null, is_removable |-> TRUE, modified_by |-> Null]

CustomFieldRow(project_id, field_data) ==
    DictUpdate(DictUpdate(CustomFieldDefaults, field_data), [project |-> project_id])

\* the defaults with the last one left removable
default_fields_removable ==
    << [name |-> "Filename", field_type |-> "Text", is_required |-> TRUE,
        is_default |-> TRUE, order |-> 0, is_removable |-> FALSE],
       [name |-> "Date Created", field_type |-> "Date", is_required |-> TRUE,
        is_default |-> TRUE, order |-> 1, is_removable |-> FALSE],
       [name |-> "Date Modified", field_type |-> "Date", is_required |-> TRUE,
        is_default |-> TRUE, order |-> 2] >>

\* create_project, lines 175-200
default_fields ==
    << [name |-> "Filename", field_type |-> "Text", is_required |-> TRUE,
        is_default |-> TRUE, order |-> 0, is_removable |-> FALSE],
       [name |-> "Date Created", field_type |-> "Date", is_required |-> TRUE,
        is_default |-> TRUE, order |-> 1, is_removable |-> FALSE],
       [name |-> "Date Modified", field_type |-> "Date", is_required |-> TRUE,
        is_default |-> TRUE, order |-> 2, is_removable |-> FALSE] >>

\* project.custom_fields.all() over a table: the ids of the project's fields,
\* in id order.
FieldIdsOf(fields, project_id) ==
    SelectSeq([i \in 1..Len(fields) |-> i], LAMBDA i : fields[i].project = project_id)

\* CustomFieldSerializer
CustomFieldSerializer(fields, id) ==
    [id |-> id, name |-> fields[id].name, description |-> fields[id].description,
     field_type |-> fields[id].field_type, is_required |-> fields[id].is_required,
     is_default |-> fields[id].is_default, default_value |-> fields[id].default_value,
     order |-> fields[id].order, role_visibility |-> fields[id].role_visibility,
     user_list_options |-> fields[id].user_list_options,
     is_removable |-> fields[id].is_removable]

\* ProjectSerializer(project).data, with to_representation's str(id)
ProjectSerializer(projs, fields, id) ==
    [id |-> ToString(id), name |-> projs[id].name, description |-> projs[id].description,
     file_name |-> projs[id].file_name, is_active |-> projs[id].is_active,
     is_archived |-> projs[id].is_archived, modified_by |-> projs[id].modified_by,
     custom_fields |-> [k \in 1..Len(FieldIdsOf(fields, id)) |->
                          CustomFieldSerializer(fields, FieldIdsOf(fields, id)[k])]]

\* ProjectCreateSerializer: name and file_name are required, description is not.
ProjectCreateSerializerValid(data) ==
    /\ "name" \in DOMAIN data /\ data.name # ""
    /\ "file_name" \in DOMAIN data /\ data.file_name # ""

Forbidden == [status |-> 403, body |-> [error |-> "Access denied. Insufficient permissions."]]

\* a copy that forgets role_visibility, which then takes the model's default
CloneFieldRow_default_visibility(field, project_id) ==
    [name |-> field.name, description |-> field.description,
     field_type |-> field.field_type, is_required |-> field.is_required,
     is_default |-> field.is_default, default_value |-> field.default_value,
     order |-> field.order, role_visibility |-> "all",
     user_list_options |-> field.user_list_options,
     is_removable |-> field.is_removable, modified_by |-> Null,
     project |-> project_id]

\* a copy that forgets is_removable, which then takes the model's default
CloneFieldRow_removable(field, project_id) ==
    [name |-> field.name, description |-> field.description,
     field_type |-> field.field_type, is_required |-> field.is_required,
     is_default |-> field.is_default, default_value |-> field.default_value,
     order |-> field.order, role_visibility |-> field.role_visibility,
     user_list_options |-> field.user_list_options,
     is_removable |-> CustomFieldDefaults.is_removable, modified_by |-> Null,
     project |-> project_id]

CloneFieldRow(field, project_id) ==
    [name |-> field.name, description |-> field.description,
     field_type |-> field.field_type, is_required |-> field.is_required,
     is_default |-> field.is_default, default_value |-> field.default_value,
     order |-> field.order, role_visibility |-> field.role_visibility,
     user_list_options |-> field.user_list_options,
     is_removable |-> field.is_removable, modified_by |-> Null,
     project |-> project_id]

(***************************************************************************)
(* What a client can put in the Authorization header: a token it was       *)
(* issued, or a text it made from one without the signing key.             *)
(***************************************************************************)
\* the payload changed, the signature segment kept
AlterPayload(token, permissions) ==
    [token EXCEPT !.payload = DictUpdate(token.payload, [permissions |-> permissions])]
\* signed anew with a key of the client's
SignWith(token, key) ==
    [token EXCEPT !.signature = HMAC(key, token.header, token.payload)]
\* signature bytes changed
AlterSignature(token) ==
    [token EXCEPT !.signature = HMAC("altered", token.header, token.payload)]
\* the last character of the signature segment changed within its two unused bits
AlterTrailing(token, bits) ==
    [token EXCEPT !.trailing = bits]
\* the header changed to the unsigned algorithm
AlgNone(token) ==
    [token EXCEPT !.header = [alg |-> "none", typ |-> "JWT"],
                  !.signature = HMAC("", [alg |-> "none", typ |-> "JWT"], token.payload)]
\* a text that is no JWT
MalformedToken ==
    [wellformed |-> FALSE, header |-> HS256Header, payload |-> [garbage |-> TRUE],
     signature |-> HMAC("", HS256Header, [garbage |-> TRUE]), trailing |-> 0]
\* tokens of a deployment that shares the key but not the issuer or the audience
OtherIssuer(token) ==
    jwt_encode(DictUpdate(token.payload, [iss |-> "AnotherIssuer"]), JWT_SECRET_KEY)
OtherAudience(token) ==
    jwt_encode(DictUpdate(token.payload, [aud |-> "AnotherAudience"]), JWT_SECRET_KEY)

IssuedTokens == {i.token : i \in issued}

Forgeries(token) ==
    { AlterPayload(token, token.payload.permissions \cup {"workspace.admin"}),
      AlterPayload(token, {}),
      SignWith(AlterPayload(token, {"workspace.admin"}), "client-key"),
      SignWith(token, "client-key"),
      AlterSignature(token),
      AlgNone(token),
      OtherIssuer(token),
      OtherAudience(token) } \ {token}

Retouched(token) == {AlterTrailing(token, b) : b \in TrailingBits \ {token.trailing}}

PresentedTokens ==
    IssuedTokens \cup UNION {Forgeries(t) : t \in IssuedTokens}
                 \cup UNION {Retouched(t) : t \in IssuedTokens} \cup {MalformedToken}

\* The headers of the requests to the project views: no header, another
\* scheme, an issued token, its retouched copy, and the forgery that asks for
\* more than was issued.
GateTokens ==
    IssuedTokens
    \cup UNION {{AlterPayload(t, t.payload.permissions \cup {"workspace.admin"}),
                 AlterTrailing(t, 1)} : t \in IssuedTokens}

AuthHeaders ==
    {None} \cup {Bearer(t) : t \in GateTokens}
           \cup {Header("Basic ", t) : t \in IssuedTokens}

(***************************************************************************)
(* The project views, statement by statement.  A create_project or         *)
(* clone_project handler keeps in `project` the id of the Project it has   *)
(* inserted (0 before the insert), in `rows` the list its loop walks (the  *)
(* default fields, or the fields prefetched with the source) and in `done` *)
(* the number of CustomFields it has inserted.                             *)
(***************************************************************************)
ProjectViews == {"create_project", "clone_project", "get_project", "get_projects"}

NothingWritten == [project |-> 0, rows |-> <<>>, done |-> 0]

\* The table has room for the Project of a new handler and of every handler
\* that has yet to insert its own.
RoomForProject ==
    Len(projects) + NumberOf({h \in Handlers : h.pc \in {"prefetch", "create"}})
       < MaxProjects

\* create_project, lines 163-172: the gate, the serializer, serializer.save().
\* fail: the INSERT raises.
create_project_save(request, fail) ==
    LET data == request.data
        permitted == has_permission(request, "workspace.admin")
        valid == ProjectCreateSerializerValid(data)
        answer(status, body) ==
            /\ resp' = Answer("create_project", request, now, NothingWritten, status, body)
            /\ UNCHANGED <<inflight, projects>>
    IN /\ Accepting
       /\ fail => (permitted /\ valid)
       /\ IF ~permitted THEN answer(Forbidden.status, Forbidden.body)
          ELSE IF ~valid THEN answer(400, [errors |-> "invalid"])
          ELSE IF fail THEN answer(500, [error |-> "Error creating project"])
          ELSE /\ RoomForProject
               /\ projects' = Append(projects,
                                ProjectRow(data.name,
                                           IF "description" \in DOMAIN data
                                           THEN data.description ELSE Null,
                                           data.file_name))
               /\ inflight' = Started(
                      Handler("create_project", request, now, "fields",
                              [project |-> Len(projects) + 1, rows |-> default_fields,
                               done |-> 0]))
               /\ resp' = resp
       /\ UNCHANGED <<storeVars, now, ticks, issued, customFields>>

\* clone_project, lines 224-232: the gate and the SELECT of get_object_or_404.
\* fail: the SELECT raises.  Http404 is an Exception, so the except clause
\* answers a missing project like any other failure.
clone_project_get(auth_header, project_id, fail) ==
    LET request == [auth_header |-> auth_header, project_id |-> project_id]
        permitted == has_permission(request, "workspace.admin")
        answer(status, body) ==
            /\ resp' = Answer("clone_project", request, now, NothingWritten, status, body)
            /\ inflight' = inflight
    IN /\ Accepting
       /\ fail => (permitted /\ project_id \in 1..Len(projects))
       /\ IF ~permitted THEN answer(Forbidden.status, Forbidden.body)
          ELSE IF fail \/ project_id \notin 1..Len(projects)
          THEN answer(500, [error |-> "Error cloning project"])
          ELSE /\ RoomForProject
               /\ inflight' = Started(
                      Handler("clone_project", request, now, "prefetch",
                              [project |-> 0, rows |-> <<>>, done |-> 0,
                               original_project |-> projects[project_id]]))
               /\ resp' = resp
       /\ UNCHANGED <<storeVars, now, ticks, issued, projectVars>>

\* Line 232, prefetch_related('custom_fields'): the SELECT of the fields of the
\* source, sent when the SELECT of the Project has returned.
clone_project_prefetch(h) ==
    LET ids == FieldIdsOf(customFields, h.request.project_id)
    IN /\ h \in Handlers
       /\ h.op = "clone_project"
       /\ h.pc = "prefetch"
       /\ inflight' = Continue(h, "create",
                         [h.loc EXCEPT !.rows = [k \in 1..Len(ids) |->
                             DictUpdate(customFields[ids[k]], [id |-> ids[k]])]])
       /\ UNCHANGED <<storeVars, now, ticks, issued, projectVars, resp>>

\* Lines 235-239: Project.objects.create
clone_project_create(h) ==
    /\ h \in Handlers
    /\ h.op = "clone_project"
    /\ h.pc = "create"
    /\ projects' = Append(projects,
                     ProjectRow(h.loc.original_project.name \o " (Copy)",
                                h.loc.original_project.description,
                                h.loc.original_project.file_name))
    /\ inflight' = Continue(h, "fields", [h.loc EXCEPT !.project = Len(projects) + 1])
    /\ UNCHANGED <<storeVars, now, ticks, issued, customFields, resp>>

\* Lines 202-203 and 242-255: one turn of the loop, CustomField.objects.create
custom_field_create(h) ==
    /\ h \in Handlers
    /\ h.op \in {"create_project", "clone_project"}
    /\ h.pc = "fields"
    /\ h.loc.done < Len(h.loc.rows)
    /\ customFields' = Append(customFields,
                          IF h.op = "create_project"
                          THEN CustomFieldRow(h.loc.project, h.loc.rows[h.loc.done + 1])
                          ELSE CloneFieldRow(h.loc.rows[h.loc.done + 1], h.loc.project))
    /\ inflight' = Continue(h, "fields", [h.loc EXCEPT !.done = @ + 1])
    /\ UNCHANGED <<storeVars, now, ticks, issued, projects, resp>>

\* Lines 206 and 258: refresh_from_db, the SELECT of the Project the handler
\* inserted, when the loop has ended.
refresh_from_db(h) ==
    /\ h \in Handlers
    /\ h.op \in {"create_project", "clone_project"}
    /\ h.pc = "fields"
    /\ h.loc.done = Len(h.loc.rows)
    /\ inflight' = Continue(h, "respond", h.loc)
    /\ UNCHANGED <<storeVars, now, ticks, issued, projectVars, resp>>

\* Lines 207-208 and 259-261: the serializer with its SELECT of the fields, the
\* response
respond_created(h) ==
    /\ h \in Handlers
    /\ h.op \in {"create_project", "clone_project"}
    /\ h.pc = "respond"
    /\ resp' = Answer(h.op, h.request, h.at, h.loc, 201,
                      ProjectSerializer(projects, customFields, h.loc.project))
    /\ inflight' = Ended(h)
    /\ UNCHANGED <<storeVars, now, ticks, issued, projectVars>>

(***************************************************************************)
(* projects.views.get_project: the SELECT of get_object_or_404, then the   *)
(* serializer with its SELECT of the fields.  Any exception, Http404       *)
(* included, is answered 404.                                              *)
(***************************************************************************)
ProjectNotFound == [status |-> 404, body |-> [error |-> "Project not found"]]

\* Line 147.  fail: the SELECT raises.
get_project_get(project_id, fail) ==
    LET request == [project_id |-> project_id]
    IN /\ Accepting
       /\ IF fail \/ project_id \notin 1..Len(projects)
          THEN /\ resp' = Answer("get_project", request, now, [project |-> 0],
                                 ProjectNotFound.status, ProjectNotFound.body)
               /\ inflight' = inflight
          ELSE /\ inflight' = Started(
                      Handler("get_project", request, now, "serialize",
                              [project |-> project_id]))
               /\ resp' = resp
       /\ UNCHANGED <<storeVars, now, ticks, issued, projectVars>>

\* Lines 148-149
get_project_serialize(h) ==
    /\ h \in Handlers
    /\ h.op = "get_project"
    /\ h.pc = "serialize"
    /\ resp' = Answer("get_project", h.request, h.at, h.loc, 200,
                      ProjectSerializer(projects, customFields, h.loc.project))
    /\ inflight' = Ended(h)
    /\ UNCHANGED <<storeVars, now, ticks, issued, projectVars>>

(***************************************************************************)
(* projects.views.get_projects.  A query parameter is a text: PyInt(n) is  *)
(* the text of the integer n, PyStr(s) a text int() does not accept.  The  *)
(* header is only tested for its prefix; the token is not looked at.  The  *)
(* statements: queryset.count(), the count of the Paginator, the SELECT of *)
(* the rows of the page, and for each row the serializer's SELECT of its   *)
(* fields.                                                                 *)
(***************************************************************************)
DemoProject(id, name, description) ==
    [id |-> id, name |-> name, description |-> description,
     file_name |-> "DefaultFilename", is_active |-> TRUE, is_archived |-> FALSE,
     modified_by |-> "admin", custom_fields |-> <<>>]

\* Lines 44-77: the answer to a request without a Bearer header.
DemoProjectsPage ==
    [data |-> << DemoProject("1", "Sample Project 1", "A sample project for testing"),
                 DemoProject("2", "Sample Project 2", "Another sample project") >>,
     total_count |-> 2, page |-> 1, page_size |-> 10, total_pages |-> 1]

\* Lines 112-136: the answer of the except clause.
FallbackProjectsPage ==
    [data |-> << DemoProject("1", "Sample Project 1", "A sample project for testing") >>,
     total_count |-> 1, page |-> 1, page_size |-> 10, total_pages |-> 1]

\* Lines 85-87: the ids of the rows of the queryset, in id order.
ProjectQueryset(projs, include_archived) ==
    SelectSeq([i \in 1..Len(projs) |-> i],
              LAMBDA i : include_archived \/ ~projs[i].is_archived)

\* Paginator.num_pages for a positive per_page: ceil(max(1, count) / per_page)
NumPages(count, per_page) ==
    ((IF count = 0 THEN 1 ELSE count) + per_page - 1) \div per_page

\* Lines 91-97 for a count of rows: num_pages, the view's clamp of page, and
\* get_page.  A per_page of 0 divides by zero in num_pages; a negative one
\* ends in EmptyPage or in a negative slice: raised.  get_page serves the last
\* page for a number below 1, and the view reports the number as it was asked.
Paginate(count, page, page_size) ==
    IF page_size <= 0
    THEN [raised |-> TRUE, total_pages |-> 0, page |-> page, bottom |-> 0, top |-> 0]
    ELSE LET total_pages == NumPages(count, page_size)
             view_page == IF page > total_pages /\ total_pages > 0
                          THEN total_pages ELSE page
             number == IF view_page < 1 THEN total_pages ELSE view_page
             bottom == (number - 1) * page_size
             top == IF bottom + page_size >= count THEN count ELSE bottom + page_size
         IN [raised |-> FALSE, total_pages |-> total_pages, page |-> view_page,
             bottom |-> bottom, top |-> top]

ProjectsPage(loc) ==
    [data |-> loc.data, total_count |-> loc.total_count, page |-> loc.page,
     page_size |-> loc.page_size, total_pages |-> loc.total_pages]

\* Lines 39-90: the header, int() of the parameters, queryset.count().
\* fail: the count raises.
get_projects_count(request, fail) ==
    LET bearer == request.auth_header # None /\ request.auth_header.prefix = "Bearer "
        parsed == "int" \in DOMAIN request.page /\ "int" \in DOMAIN request.page_size
        answer(body) ==
            /\ resp' = Answer("get_projects", request, now, [rows |-> <<>>], 200, body)
            /\ inflight' = inflight
    IN /\ Accepting
       /\ fail => (bearer /\ parsed)
       /\ IF ~bearer THEN answer(DemoProjectsPage)
          ELSE IF ~parsed \/ fail THEN answer(FallbackProjectsPage)
          ELSE /\ inflight' = Started(
                      Handler("get_projects", request, now, "paginate",
                              [total_count |->
                                  Len(ProjectQueryset(projects, request.include_archived)),
                               page |-> request.page.int, page_size |-> request.page_size.int,
                               total_pages |-> 0, bottom |-> 0, top |-> 0,
                               rows |-> <<>>, data |-> <<>>]))
               /\ resp' = resp
       /\ UNCHANGED <<storeVars, now, ticks, issued, projectVars>>

\* Lines 91-97: paginator.num_pages sends the Paginator's own count.
get_projects_paginate(h) ==
    LET p == Paginate(Len(ProjectQueryset(projects, h.request.include_archived)),
                      h.loc.page, h.loc.page_size)
    IN /\ h \in Handlers
       /\ h.op = "get_projects"
       /\ h.pc = "paginate"
       /\ IF p.raised
          THEN /\ resp' = Answer("get_projects", h.request, h.at, h.loc, 200,
                                 FallbackProjectsPage)
               /\ inflight' = Ended(h)
          ELSE /\ inflight' = Continue(h, "page",
                                 [h.loc EXCEPT !.total_pages = p.total_pages,
                                               !.page = p.page,
                                               !.bottom = p.bottom, !.top = p.top])
               /\ resp' = resp
       /\ UNCHANGED <<storeVars, now, ticks, issued, projectVars>>

\* Line 103: the serializer walks the page, which sends the SELECT of its rows
\* (object_list[bottom:top]).
get_projects_page(h) ==
    LET queryset == ProjectQueryset(projects, h.request.include_archived)
        rows == SubSeq(queryset, h.loc.bottom + 1, Min2(h.loc.top, Len(queryset)))
    IN /\ h \in Handlers
       /\ h.op = "get_projects"
       /\ h.pc = "page"
       /\ IF rows = <<>>
          THEN /\ resp' = Answer("get_projects", h.request, h.at, h.loc, 200,
                                 ProjectsPage(h.loc))
               /\ inflight' = Ended(h)
          ELSE /\ inflight' = Continue(h, "serialize", [h.loc EXCEPT !.rows = rows])
               /\ resp' = resp
       /\ UNCHANGED <<storeVars, now, ticks, issued, projectVars>>

\* Lines 103-110: the serializer on the next row of the page, with its SELECT
\* of the fields of that row; after the last row, the response.
get_projects_serialize(h) ==
    LET k == Len(h.loc.data) + 1
        loc == [h.loc EXCEPT !.data =
                   Append(@, ProjectSerializer(projects, customFields, h.loc.rows[k]))]
    IN /\ h \in Handlers
       /\ h.op = "get_projects"
       /\ h.pc = "serialize"
       /\ IF k = Len(h.loc.rows)
          THEN /\ resp' = Answer("get_projects", h.request, h.at, loc, 200, ProjectsPage(loc))
               /\ inflight' = Ended(h)
          ELSE /\ inflight' = Continue(h, "serialize", loc)
               /\ resp' = resp
       /\ UNCHANGED <<storeVars, now, ticks, issued, projectVars>>

(***************************************************************************)
(* The except clauses of the project views: the statement a handler under  *)
(* way sends next raises (the database is gone, the row violates a         *)
(* constraint), and the handler answers with what it has written left in   *)
(* place.                                                                  *)
(***************************************************************************)
ExceptResponse(op) ==
    IF op = "create_project"
    THEN [status |-> 500, body |-> [error |-> "Error creating project"]]
    ELSE IF op = "clone_project"
    THEN [status |-> 500, body |-> [error |-> "Error cloning project"]]
    ELSE IF op = "get_project" THEN ProjectNotFound
    ELSE [status |-> 200, body |-> FallbackProjectsPage]

except_clause(h) ==
    /\ h \in Handlers
    /\ h.op \in ProjectViews
    /\ resp' = Answer(h.op, h.request, h.at, h.loc,
                      ExceptResponse(h.op).status, ExceptResponse(h.op).body)
    /\ inflight' = Ended(h)
    /\ UNCHANGED <<storeVars, now, ticks, issued, projectVars>>

(***************************************************************************)
(* The requests of the specifications.                                     *)
(***************************************************************************)
CreateData == { [name |-> "Alpha", description |-> "first", file_name |-> "DefaultFilename"],
                [description |-> "no name"] }

\* login requests with the credentials `logins`, the clock read `gaps` apart,
\* handled concurrently, any query of which may raise
LoginRequests(logins, gaps) ==
    \/ \E c \in logins, fail \in BOOLEAN : login_get_user(c[1], c[2], fail)
    \/ \E h \in Handlers : login_prefetch(h)
    \/ \E h \in Handlers : login_except(h)
    \/ \E h \in Handlers, g \in gaps : login_respond(h, g)

\* login requests that arrive one after the other and whose queries are
\* answered
LoginsInTurn(logins, gaps) ==
    \/ \E c \in logins :
          /\ LoginsUnderWay = {}
          /\ login_get_user(c[1], c[2], FALSE)
    \/ \E h \in Handlers : login_prefetch(h)
    \/ \E h \in Handlers, g \in gaps : login_respond(h, g)

\* the lifetime of a token passes, once one has been issued
TokenAges == issued # {} /\ Tick(TokenLifetime)

\* a query of a login that arrives when no other is under way raises
FailedLogins(logins) ==
    \/ \E c \in logins :
          /\ LoginsUnderWay = {}
          /\ login_get_user(c[1], c[2], TRUE)
    \/ \E h \in Handlers : login_except(h)

\* one login with the credentials `logins`, when no token has been issued
FirstLogin(logins) ==
    \/ \E c \in logins :
          /\ issued = {}
          /\ LoginsUnderWay = {}
          /\ login_get_user(c[1], c[2], FALSE)
    \/ \E h \in Handlers : login_prefetch(h)
    \/ \E h \in Handlers : login_respond(h, NoGaps)

\* the statements of the create_project and clone_project handlers under way
Building ==
    \/ \E h \in Handlers : clone_project_prefetch(h)
    \/ \E h \in Handlers : clone_project_create(h)
    \/ \E h \in Handlers : custom_field_create(h)
    \/ \E h \in Handlers : refresh_from_db(h)
    \/ \E h \in Handlers : respond_created(h)

(***************************************************************************)
(* Spec: create_project and clone_project requests handled concurrently,   *)
(* every statement of a handler either done or failed.  The tables hold    *)
(* either nothing or a project whose schema was extended with a field of   *)
(* its own.  The requests come without a header or with the token of the   *)
(* administrator, who logs in once.                                        *)
(***************************************************************************)
SeededProjects == << ProjectRow("Invoices", "seeded", "DefaultFilename") >>
SeededFields ==
    [k \in 1..Len(default_fields) |-> CustomFieldRow(1, default_fields[k])]
    \o << CustomFieldRow(1, [name |-> "Amount", field_type |-> "Currency",
                             description |-> "total", default_value |-> "0",
                             order |-> 3, role_visibility |-> "[1]"]) >>

SpecHeaders == {None} \cup {Bearer(t) : t \in IssuedTokens}

AdminLogin == {<<"admin@agentdms.com", "admin123">>}

Init ==
    /\ StoreInit({ProvisionedStore}, {FALSE})
    /\ \/ projects = <<>> /\ customFields = <<>>
       \/ projects = SeededProjects /\ customFields = SeededFields

\* the tables with the seeded project
SeededInit ==
    /\ StoreInit({ProvisionedStore}, {FALSE})
    /\ projects = SeededProjects
    /\ customFields = SeededFields

Next ==
    \/ FirstLogin(AdminLogin)
    \/ \E h \in SpecHeaders, data \in CreateData, fail \in BOOLEAN :
          create_project_save([auth_header |-> h, data |-> data], fail)
    \/ \E h \in SpecHeaders, project_id \in 1..(Len(projects) + 1), fail \in BOOLEAN :
          clone_project_get(h, project_id, fail)
    \/ Building
    \/ \E h \in Handlers : except_clause(h)

Spec == Init /\ [][Next]_vars

(***************************************************************************)
(* GateSpec: the project views behind the permission gate, with the tokens *)
(* that login issues, what a client can make of them, and the clock.  The  *)
(* project requests arrive one after the other; logins and the clock run   *)
(* between the statements of the one under way.                            *)
(***************************************************************************)
GateLogins == {<<"bob@example.com", "secret">>, <<"admin@agentdms.com", "admin123">>}

GateData == [name |-> "Alpha", description |-> "first", file_name |-> "DefaultFilename"]

NoProjectRequest == \A h \in Handlers : h.op = "login"

GateNext ==
    \/ LoginsInTurn(GateLogins, {NoGaps})
    \/ TokenAges
    \/ \E h \in AuthHeaders :
          /\ NoProjectRequest
          /\ create_project_save([auth_header |-> h, data |-> GateData], FALSE)
    \/ \E h \in AuthHeaders, project_id \in 1..(Len(projects) + 1) :
          /\ NoProjectRequest
          /\ clone_project_get(h, project_id, FALSE)
    \/ Building

GateSpec == SeededInit /\ [][GateNext]_vars

(***************************************************************************)
(* AuthSpec: login requests against every provisioned store, in the        *)
(* development and the production configuration.                           *)
(***************************************************************************)
AuthInit ==
    /\ StoreInit(InitialStores, BOOLEAN)
    /\ projects = <<>>
    /\ customFields = <<>>

AuthNext == LoginRequests(LoginEmails \X LoginPasswords, ClockGaps)

AuthSpec == AuthInit /\ [][AuthNext]_vars

(***************************************************************************)
(* TokenSpec: tokens issued by login, and the clock.                       *)
(***************************************************************************)
TokenLogins == {<<"bob@example.com", "secret">>, <<"admin@agentdms.com", "admin123">>,
                <<"superadmin@agentdms.com", "sarasa123">>, <<"bob@example.com", "wrong">>}

TokenInit ==
    /\ StoreInit({ProvisionedStore}, {FALSE})
    /\ projects = <<>>
    /\ customFields = <<>>

TokenNext ==
    \/ LoginsInTurn(TokenLogins, ClockGaps)
    \/ FailedLogins(TokenLogins)
    \/ \E d \in ClockSteps : Tick(d)

TokenSpec == TokenInit /\ [][TokenNext]_vars

(***************************************************************************)
(* GrantSpec: logins handled while the roles and permissions of the store  *)
(* are edited, and the clock.                                              *)
(***************************************************************************)
EditableUsers == {1}
EditablePermissions == {"workspace.admin"}
BobLogin == {<<"bob@example.com", "secret">>}

GrantNext ==
    \/ LoginsInTurn(BobLogin, {NoGaps})
    \/ TokenAges
    \/ \E u \in EditableUsers, r \in RoleIds : GrantRole(u, r)
    \/ \E ur \in userRoles : RevokeRole(ur)
    \/ \E r \in RoleIds, p \in EditablePermissions : GrantPermission(r, p)
    \/ \E rp \in rolePermissions : RevokePermission(rp)

GrantSpec == TokenInit /\ [][GrantNext]_vars

(***************************************************************************)
(* ResetSpec: the password reset requests, login, and the clock.           *)
(***************************************************************************)
ForgotEmails == {"bob@example.com", "ghost@example.com", "not-an-email"}
ResetTokens == {ResetTokenText("demo-reset-token-", "abc"), ResetTokenText("never-issued-toke", "n"),
                ResetTokenText("", "")}
NewPasswords == {"w1", "w2", ""}
ResetLogins == {"secret", "w1", "w2"}

ResetNext ==
    \/ \E email \in ForgotEmails, fail \in BOOLEAN : ForgotPassword(email, fail)
    \/ \E token \in ResetTokens, new_password \in NewPasswords :
          ResetPassword(token, new_password)
    \/ LoginsInTurn({"bob@example.com"} \X ResetLogins, {NoGaps})
    \/ FailedLogins({"bob@example.com"} \X ResetLogins)
    \/ \E d \in ClockSteps : Tick(d)

ResetSpec == TokenInit /\ [][ResetNext]_vars

(***************************************************************************)
(* SchemaSpec: the project views, and rows of CustomField written through  *)
(* the model itself (the admin site, a shell), as the views write them     *)
(* with CustomField.objects.create.  The model declares no uniqueness over *)
(* (project, name) and the manager checks none.                            *)
(***************************************************************************)
\* CustomField.objects.create(project=project, **field_data)
CustomFieldCreate(project_id, field_data) ==
    /\ edits < MaxEdits
    /\ project_id \in 1..Len(projects)
    /\ customFields' = Append(customFields, CustomFieldRow(project_id, field_data))
    /\ edits' = edits + 1
    /\ UNCHANGED <<inflight, users, userRoles, rolePermissions, DEBUG, nextUserRoleId,
                   storeLog, now, ticks, issued, projects, resp>>

NewFields == { [name |-> "Filename", field_type |-> "Text", order |-> 4],
               [name |-> "Notes", field_type |-> "LongText", order |-> 4] }

SchemaInit ==
    /\ StoreInit({ProvisionedStore}, {FALSE})
    /\ projects = SeededProjects
    /\ customFields = SeededFields

SchemaNext ==
    \/ Next
    \/ \E project_id \in 1..Len(projects), field_data \in NewFields :
          CustomFieldCreate(project_id, field_data)

SchemaSpec == SchemaInit /\ [][SchemaNext]_vars

(***************************************************************************)
(* RaceSpec: create_project, clone_project and get_project requests        *)
(* handled concurrently.                                                   *)
(***************************************************************************)
RaceNext ==
    \/ FirstLogin(AdminLogin)
    \/ \E h \in SpecHeaders, data \in CreateData :
          create_project_save([auth_header |-> h, data |-> data], FALSE)
    \/ \E h \in SpecHeaders, project_id \in 1..Len(projects) :
          clone_project_get(h, project_id, FALSE)
    \/ Building
    \/ \E project_id \in 1..(Len(projects) + 1), fail \in BOOLEAN :
          get_project_get(project_id, fail)
    \/ \E h \in Handlers : get_project_serialize(h)
    \/ \E h \in Handlers : except_clause(h)

RaceSpec == Init /\ [][RaceNext]_vars

(***************************************************************************)
(* ListSpec: get_projects requests without a header, with the token login  *)
(* issued and with a forgery of it, handled one after the other while      *)
(* projects are created.                                                   *)
(***************************************************************************)
\* page and page_size of the requests
PageParams == { <<PyInt(1), PyInt(1)>>, <<PyInt(2), PyInt(1)>>, <<PyInt(0), PyInt(1)>>,
                <<PyInt(1), PyInt(10)>>, <<PyInt(1), PyInt(0)>>, <<PyInt(1), PyInt(-1)>>,
                <<PyInt(1), PyStr("ten")>>, <<PyStr("one"), PyInt(1)>> }

ListHeaders ==
    {None} \cup {Bearer(t) : t \in IssuedTokens}
           \cup {Bearer(AlterPayload(t, {})) : t \in IssuedTokens}

NoListRequest == \A h \in Handlers : h.op # "get_projects"

ListNext ==
    \/ FirstLogin(AdminLogin)
    \/ \E h \in ListHeaders, p \in PageParams, fail \in BOOLEAN :
          /\ NoListRequest
          /\ get_projects_count([auth_header |-> h, page |-> p[1], page_size |-> p[2],
                                 include_archived |-> FALSE], fail)
    \/ \E h \in Handlers : get_projects_paginate(h)
    \/ \E h \in Handlers : get_projects_page(h)
    \/ \E h \in Handlers : get_projects_serialize(h)
    \/ \E h \in SpecHeaders :
          create_project_save([auth_header |-> h, data |-> GateData], FALSE)
    \/ \E h \in Handlers : custom_field_create(h)
    \/ \E h \in Handlers : refresh_from_db(h)
    \/ \E h \in Handlers : respond_created(h)
    \/ \E h \in Handlers : except_clause(h)

ListSpec == SeededInit /\ [][ListNext]_vars

(***************************************************************************)
(*                              Properties                                 *)
(***************************************************************************)
\* the handlers that a step puts at a statement, and those it takes from one
Arrived == BagToSet(inflight' (-) inflight)
Departed == BagToSet(inflight (-) inflight')

ProjectOps == {"create_project", "clone_project"}

\* A step in which a request of the view op is answered.
Answered(op) == resp' # resp /\ resp'.op = op

\* The rows of the tables that a handler with the local variables loc wrote
\* are not in the tables.
NoRowOf(loc) ==
    /\ loc.project \notin 1..Len(projects)
    /\ \A k \in 1..Len(customFields) : customFields[k].project # loc.project

\* C1: clone_project is atomic: once a clone_project request has ended
\* otherwise than in 201, neither the Project it created nor any CustomField
\* it copied exists.
C1_CloneIsAtomic ==
    (resp.op = "clone_project" /\ resp.status # 201) => NoRowOf(resp.loc)

\* C2: create_project is all-or-nothing: once a create_project request has
\* ended otherwise than in 201, neither the Project it saved nor any default
\* field it seeded exists.
C2_CreateIsAllOrNothing ==
    (resp.op = "create_project" /\ resp.status # 201) => NoRowOf(resp.loc)

\* What the claim C3 says has_permission decides, at time t.
CarriesPermission(request, permission_name, t) ==
    /\ request.auth_header # None
    /\ request.auth_header.prefix = "Bearer "
    /\ validate_token_at(request.auth_header.token, t) # None
    /\ "permissions" \in DOMAIN validate_token_at(request.auth_header.token, t)
    /\ permission_name \in validate_token_at(request.auth_header.token, t).permissions

\* C3: has_permission(request, p) holds exactly when the request carries a
\* Bearer token that validates and whose permissions contain p; a
\* create_project or clone_project request that arrives without
\* workspace.admin is answered 403 and its handler inserts nothing: no
\* handler of these views is under way for a request that came without it,
\* and 403 is the answer to such requests only.
C3_AuthorizationGate ==
    /\ \A header \in AuthHeaders, p \in PermissionNames :
          has_permission([auth_header |-> header], p)
             <=> CarriesPermission([auth_header |-> header], p, now)
    /\ \A h \in Handlers :
          h.op \in ProjectOps => CarriesPermission(h.request, "workspace.admin", h.at)
    /\ resp.op \in ProjectOps =>
          /\ ~CarriesPermission(resp.request, "workspace.admin", resp.at)
                => (resp.status = 403 /\ resp.loc = NothingWritten)
          /\ resp.status = 403
                => ~CarriesPermission(resp.request, "workspace.admin", resp.at)

\* C3 witness: a clone request with a valid token that lacks workspace.admin
\* was refused.
C3_Witness ==
    /\ resp.op = "clone_project"
    /\ resp.status = 403
    /\ resp.request.auth_header # None
    /\ resp.request.auth_header.prefix = "Bearer "
    /\ validate_token_at(resp.request.auth_header.token, resp.at) # None
    /\ Len(projects) >= 1

\* The three default fields, as the claim C7 lists them.
ExpectedDefaults ==
    << [name |-> "Filename", order |-> 0], [name |-> "Date Created", order |-> 1],
       [name |-> "Date Modified", order |-> 2] >>

\* C7: a create_project answered 201 made a Project that owns exactly three
\* fields, Filename, Date Created and Date Modified, of order 0, 1 and 2, each
\* required, default and not removable, and the response describes them.
C7_CreateSeedsDefaults ==
    (resp.op = "create_project" /\ resp.status = 201) =>
        LET pid == resp.loc.project
            ids == FieldIdsOf(customFields, pid)
        IN /\ pid \in 1..Len(projects)
           /\ resp.body.id = ToString(pid)
           /\ resp.body.name = resp.request.data.name
           /\ projects[pid].name = resp.request.data.name
           /\ Len(ids) = 3
           /\ \A k \in 1..3 :
                /\ customFields[ids[k]].name = ExpectedDefaults[k].name
                /\ customFields[ids[k]].order = ExpectedDefaults[k].order
                /\ customFields[ids[k]].is_required
                /\ customFields[ids[k]].is_default
                /\ ~customFields[ids[k]].is_removable
           /\ Len(resp.body.custom_fields) = 3
           /\ \A k \in 1..3 :
                /\ resp.body.custom_fields[k].id = ids[k]
                /\ resp.body.custom_fields[k].name = ExpectedDefaults[k].name
                /\ resp.body.custom_fields[k].order = ExpectedDefaults[k].order
                /\ resp.body.custom_fields[k].is_required
                /\ resp.body.custom_fields[k].is_default
                /\ ~resp.body.custom_fields[k].is_removable

\* C7 witness: a project was created while another request was under way.
C7_Witness ==
    /\ resp.op = "create_project"
    /\ resp.status = 201
    /\ Len(FieldIdsOf(customFields, resp.loc.project)) = 3
    /\ inflight # EmptyBag

ClonedAttributes ==
    {"name", "description", "field_type", "is_required", "is_default", "default_value",
     "order", "role_visibility", "user_list_options", "is_removable"}

\* C8: a clone_project of P answered 201 made a new Project, other than P,
\* named P.name followed by " (Copy)", with P's description and file name,
\* owning one field per field that P had when the handler read them, equal to
\* it in every cloned attribute; the handler read every field P had then; and
\* no step changes a Project or CustomField row that exists.
C8_CloneCopiesSchema ==
    [][/\ \A h \in Arrived :
            (h.op = "clone_project" /\ h.pc = "create") =>
               LET ids == FieldIdsOf(customFields, h.request.project_id)
               IN /\ Len(h.loc.rows) = Len(ids)
                  /\ \A k \in 1..Len(ids) :
                        /\ h.loc.rows[k].id = ids[k]
                        /\ \A a \in ClonedAttributes :
                              h.loc.rows[k][a] = customFields[ids[k]][a]
       /\ (Answered("clone_project") /\ resp'.status = 201) =>
            LET src == resp'.request.project_id
                new == resp'.loc.project
                from == resp'.loc.rows
                to == FieldIdsOf(customFields', new)
            IN /\ src \in 1..Len(projects')
               /\ new \in 1..Len(projects')
               /\ new # src
               /\ resp'.body.id = ToString(new)
               /\ projects'[new].name = projects'[src].name \o " (Copy)"
               /\ projects'[new].description = projects'[src].description
               /\ projects'[new].file_name = projects'[src].file_name
               /\ Len(to) = Len(from)
               /\ Len(resp'.body.custom_fields) = Len(from)
               /\ \A k \in 1..Len(from) :
                    /\ customFields'[from[k].id].project = src
                    /\ \A a \in ClonedAttributes :
                          /\ customFields'[to[k]][a] = customFields'[from[k].id][a]
                          /\ resp'.body.custom_fields[k][a] = customFields'[from[k].id][a]
       /\ SubSeq(projects', 1, Len(projects)) = projects
       /\ SubSeq(customFields', 1, Len(customFields)) = customFields]_vars

\* C8 witness: a project with a field of its own, visible to one role only,
\* was cloned.
C8_Witness ==
    /\ resp.op = "clone_project"
    /\ resp.status = 201
    /\ Len(resp.body.custom_fields) = 4
    /\ \E k \in 1..4 : resp.body.custom_fields[k].role_visibility # "all"

\* The union of the permission names of the roles a user holds, in the tables
\* `store`.
RolePermissionUnionIn(store, U) ==
    UNION {{rp[2] : rp \in {x \in store.rolePermissions : x[1] = ur.role_id}}
             : ur \in {x \in store.userRoles : x.user_id = U.id}}

RolePermissionUnion(U) ==
    RolePermissionUnionIn([userRoles |-> userRoles, rolePermissions |-> rolePermissions], U)

\* C4: authorization is stateless.  While a token has not expired, every
\* decision has_permission makes with it is the one its payload fixes, whatever
\* is granted or revoked in the store; and a token issued by a database login
\* that was handled with no edit of the store in between carries the
\* permissions the store gives the user then.
C4_StatelessAuthorization ==
    [][/\ \A i \in issued : \A p \in PermissionNames :
            now' < i.token.payload.exp =>
              LET request == [auth_header |-> Bearer(i.token)]
              IN /\ has_permission(request, p)' = has_permission(request, p)
                 /\ has_permission(request, p) <=> p \in i.data.permissions
       /\ \A h \in Departed : \A i \in issued' \ issued :
            (h.op = "login" /\ i.via = "database" /\ h.loc.log = Len(storeLog)) =>
               i.data.permissions = RolePermissionUnion(h.loc.user)]_vars

\* C4 witness: an unexpired token whose holder has since lost a permission in
\* the store still passes the gate with it.
C4_Witness ==
    \E i \in issued : \E p \in PermissionNames :
        /\ i.via = "database"
        /\ now < i.token.payload.exp
        /\ p \in i.data.permissions
        /\ p \notin get_permissions(GetUserPrefetched(i.data.email))
        /\ has_permission([auth_header |-> Bearer(i.token)], p)

\* C5: validate_token of an issued token, before its expiry, returns the user
\* data the token was issued for, without iss, aud, iat and exp; later than
\* 24 hours after its issued-at it returns None.
C5_RoundTripAndExpiry ==
    \A i \in issued :
        /\ now < i.token.payload.exp => validate_token(i.token) = i.data
        /\ now > i.token.payload.iat + TokenLifetime => validate_token(i.token) = None
        /\ i.token.payload.exp <= i.token.payload.iat + TokenLifetime

\* C5 witness: a token of a database user, with roles and permissions, has
\* been validated on both sides of its expiry.
C5_Witness ==
    \E i \in issued :
        /\ i.via = "database"
        /\ i.data.permissions # {}
        /\ now > i.token.payload.iat + TokenLifetime
        /\ validate_token(i.token) = None
        /\ validate_token_at(i.token, i.token.payload.iat) = i.data

\* C6, as claimed: a token altered in any position, signed with another key or
\* carrying another issuer or audience is never accepted.
C6_AnyAlterationRejected ==
    \A i \in issued : \A t \in Forgeries(i.token) \cup Retouched(i.token) :
        validate_token(t) = None

\* C6, amended: validate_token returns claims only for a token whose signature
\* bytes are the MAC, under the system's key, of its header and payload, and
\* whose issuer and audience are the configured ones.  A token whose header,
\* payload or signature bytes were altered, that was signed with another key,
\* or that carries another issuer or audience, yields None.  A change of the
\* final signature character within the two bits base64url decoding discards
\* is not detected: validate_token answers as for the issued token.
C6_ForgedTokensRejected ==
    /\ \A t \in PresentedTokens :
          validate_token(t) # None =>
             /\ t.wellformed
             /\ t.signature = HMAC(JWT_SECRET_KEY, t.header, t.payload)
             /\ t.payload.iss = JWT_ISSUER
             /\ t.payload.aud = JWT_AUDIENCE
             /\ \E i \in issued : t.payload = i.token.payload
    /\ \A i \in issued :
          /\ \A t \in Forgeries(i.token) : validate_token(t) = None
          /\ \A t \in Retouched(i.token) : validate_token(t) = validate_token(i.token)

\* C6 witness: an unexpired token, its forgeries refused and its retouched
\* copy accepted.
C6_Witness ==
    \E i \in issued :
        /\ validate_token(i.token) = i.data
        /\ validate_token(AlterPayload(i.token, {"workspace.admin"})) = None
        /\ validate_token(AlterTrailing(i.token, 2)) = i.data
        /\ i.data.permissions # {"workspace.admin"}


\* A login request that was answered, but not with a token and not as
\* malformed input: a failed login attempt.
FailedAttempt(r) == r.status \notin {200, 400}

\* The answer of a login request handled in the present state.
LoginNow(email, password) ==
    login(email, password, GetUserPrefetched(email), ClockReadings(now, NoGaps))

\* C9: in production (DEBUG off) a failed login for an e-mail that has an
\* account and a failed login for an e-mail that has none receive the same
\* status, 401, and the same message, when the database answered the queries
\* of the login.
C9_LoginAntiEnumeration ==
    (/\ ~DEBUG
     /\ resp.op = "login"
     /\ FailedAttempt(resp)
     /\ ~resp.loc.raised
     /\ GetUserByEmail(resp.request.email) # None)
    => \A email \in LoginEmails, password \in LoginPasswords :
          (/\ GetUserByEmail(email) = None
           /\ FailedAttempt(LoginNow(email, password)))
          => /\ resp.status = 401
             /\ LoginNow(email, password).status = 401
             /\ resp.body = LoginNow(email, password).body

\* C10: login issues a token for a stored account only on successful
\* password verification: a login whose e-mail matches a stored User and that
\* is answered with a token had a password that verifies against that user's
\* stored credential.
C10_TokenOnlyOnVerifiedPassword ==
    (/\ resp.op = "login"
     /\ GetUserByEmail(resp.request.email) # None
     /\ "token" \in DOMAIN resp.body)
    => PasswordMatch(GetUserByEmail(resp.request.email), resp.request.password).value

\* The permissions a login handler read: the union, over the UserRole rows its
\* first prefetch query returned, of the permission names in the
\* RolePermission rows its second returned for the role.
PermissionsRead(loc) ==
    UNION {{rp[2] : rp \in {x \in loc.role_permissions : x[1] = ur.role_id}}
             : ur \in loc.user_roles}

\* The states of the store from the arrival of a login request to now.
StoresSince(loc) == {storeLog[k] : k \in loc.log..Len(storeLog)}

\* C11, as claimed: the permissions in the token of a successful database
\* login of U are the union of the permission names of every RolePermission of
\* every Role that a UserRole links to U at login time: at some time between
\* the arrival of the request and its answer the store gave U that union.
C11_UnionAtLoginTime ==
    [][\A h \in Departed : \A i \in issued' \ issued :
          (h.op = "login" /\ i.via = "database") =>
             \E store \in StoresSince(h.loc) :
                i.token.payload.permissions = RolePermissionUnionIn(store, h.loc.user)]_vars

\* C11, amended: the permissions in the token of a successful database login
\* of U are the union, as a set, of the permission names of the RolePermission
\* rows that the login read for the roles of the UserRole rows it read for U:
\* empty when it read no UserRole, and the same in whatever order the rows are
\* walked.  The two reads are separate queries: every row read was in the
\* store at some time during the login, and when no edit is committed during
\* the login the set is the union the store gives U.
C11_PermissionAggregation ==
    [][\A h \in Departed : \A i \in issued' \ issued :
          (h.op = "login" /\ i.via = "database") =>
            LET U == PrefetchedUser(h.loc.user, h.loc.user_roles, h.loc.role_permissions)
            IN /\ i.token.payload.permissions = PermissionsRead(h.loc)
               /\ i.data.permissions = PermissionsRead(h.loc)
               /\ h.loc.user_roles = {} => i.token.payload.permissions = {}
               /\ \A rows \in Orderings(user_roles(U)) :
                     AddPermissions(rows, {}) = i.token.payload.permissions
               /\ \A ur \in h.loc.user_roles :
                     ur.user_id = h.loc.user.id
                     /\ \E store \in StoresSince(h.loc) : ur \in store.userRoles
               /\ \A rp \in h.loc.role_permissions :
                     \E store \in StoresSince(h.loc) : rp \in store.rolePermissions
               /\ h.loc.log = Len(storeLog)
                     => i.token.payload.permissions = RolePermissionUnion(h.loc.user)]_vars

\* C11 witness: a token of a user with two roles that both grant
\* workspace.admin carries it once, with the permission of the other role.
C11_Witness ==
    \E i \in issued :
        /\ i.via = "database"
        /\ Cardinality(i.data.roles) = 2
        /\ {<<1, "workspace.admin">>, <<2, "workspace.admin">>} \subseteq rolePermissions
        /\ i.token.payload.permissions = {"workspace.admin", "document.view"}

\* C12: reset tokens are single use.  Once a reset_password request with a
\* token has been answered 200, a further reset_password request with the
\* same token that is answered next is refused with 400: with the
\* invalid-token message when the request passes the serializer, with the
\* serializer's errors when it does not; and no User row changes.
C12_ResetTokenSingleUse ==
    [][(/\ resp.op = "reset_password"
        /\ resp.status = 200
        /\ Answered("reset_password")
        /\ resp'.request.token = resp.request.token)
       => /\ resp'.status = 400
          /\ ResetPasswordSerializerValid(resp'.request.token, resp'.request.new_password)
                => resp'.body = [message |-> "Invalid or expired reset token"]
          /\ users' = users]_vars

\* C13: a successful reset takes effect.  After reset_password has answered
\* 200 for a new password w, the stored hash of the user the token belongs to
\* verifies w: some User row's password_hash is a hash of w.
C13_ResetTakesEffect ==
    (resp.op = "reset_password" /\ resp.status = 200)
    => \E u \in users :
          /\ u.password_hash.form = "bcrypt"
          /\ verify_password(resp.request.new_password, u.password_hash).value

\* C14: forgot_password is uniform.  A request with a well-formed address is
\* answered as the same request with any other well-formed address would be,
\* whether or not a User has it: with 200 and one message when the store
\* answers; and the request changes no User row.
C14_ForgotPasswordUniform ==
    [][(resp'.op = "forgot_password" /\ resp'.status # 400) =>
         /\ users' = users
         /\ ~resp'.request.fail => resp'.status = 200
         /\ \A email \in ForgotEmails :
               ForgotPasswordSerializerValid(email) =>
                  LET r == forgot_password(email, resp'.request.fail)
                  IN r.status = resp'.status /\ r.body = resp'.body]_vars

\* C14 witness: an address no User has was answered 200 while another
\* address, which a User has, is on file.
C14_Witness ==
    /\ resp.op = "forgot_password"
    /\ resp.status = 200
    /\ GetUserByEmail(resp.request.email) = None
    /\ \E email \in ForgotEmails : GetUserByEmail(email) # None

\* C15: the password verifier never raises.  For a stored value that is not a
\* well-formed hash verify_password returns false without raising, and a
\* login against a User whose stored password_hash is malformed, the database
\* having answered its queries, is answered 401, like any wrong-password
\* attempt, not 500.
C15_VerifyNeverRaises ==
    (/\ resp.op = "login"
     /\ ~resp.loc.raised
     /\ GetUserByEmail(resp.request.email) # None
     /\ GetUserByEmail(resp.request.email).password_hash.form = "malformed")
    => LET r == verify_password(resp.request.password,
                                GetUserByEmail(resp.request.email).password_hash)
       IN /\ ~r.raised
          /\ ~r.value
          /\ resp.status = 401


\* C16: in every state reached by create_project and clone_project requests,
\* failed ones included, every CustomField with is_default has is_removable
\* false.
C16_DefaultFieldsNotRemovable ==
    \A k \in 1..Len(customFields) :
        customFields[k].is_default => ~customFields[k].is_removable

\* C16 witness: a clone that failed midway left default fields of its own
\* behind.
C16_Witness ==
    /\ resp.op = "clone_project"
    /\ resp.status = 500
    /\ \E k \in 1..Len(customFields) :
          /\ customFields[k].project = resp.loc.project
          /\ customFields[k].project # resp.request.project_id
          /\ customFields[k].is_default

\* The names of the fields of a project are pairwise different.
UniqueFieldNames(fields, project_id) ==
    \A i, j \in 1..Len(fields) :
        (i # j /\ fields[i].project = project_id /\ fields[j].project = project_id)
        => fields[i].name # fields[j].name

\* C17: within one project no two CustomFields have the same name, after any
\* sequence of create_project and clone_project requests; an operation that
\* would give a project a second field with a name it already has is rejected:
\* no step leaves a project, new or old, with two fields of one name that it
\* did not have before.
C17_UniqueFieldNames ==
    [][\A p \in 1..Len(projects') :
          UniqueFieldNames(customFields, p) => UniqueFieldNames(customFields', p)]_vars


\* C19: a clone_project request that carries workspace.admin and names a
\* project id that does not exist is answered 404 and adds no Project and no
\* CustomField row.
C19_CloneOfMissingProjectIsNotFound ==
    (/\ resp.op = "clone_project"
     /\ CarriesPermission(resp.request, "workspace.admin", resp.at)
     /\ resp.request.project_id \notin 1..Len(projects))
    => /\ resp.status = 404
       /\ NoRowOf(resp.loc)

\* The fields UserSerializer and AuthResponseSerializer give a user.
UserFields == {"id", "username", "email", "is_immutable", "roles", "permissions"}

\* C20: generate_token leaves its argument unchanged.  The user object of a
\* successful login response has exactly the fields id, username, email,
\* is_immutable, roles and permissions, none of iss, aud, iat and exp, and
\* equals what validate_token returns for the token of the same response.
C20_GenerateTokenLeavesArgument ==
    (resp.op = "login" /\ resp.status = 200)
    => /\ DOMAIN resp.body.user = UserFields
       /\ DOMAIN resp.body.user \cap StandardClaims = {}
       /\ resp.body.user = validate_token_at(resp.body.token, resp.body.token.payload.iat)


\* C18: no request observes a partially built project.  A get_project or
\* clone_project request answered while a create_project or clone_project
\* handler is inserting the fields of a project sees that project with as many
\* CustomFields as it has once the handler completes; a clone of it gets that
\* many fields.
C18_NoPartialProjectObserved ==
    [][\A op \in {"get_project", "clone_project"} :
          (Answered(op) /\ resp'.status \in {200, 201}) =>
             \A b \in BagToSet(inflight') :
                (/\ b.op \in ProjectOps
                 /\ b.pc = "fields"
                 /\ b.loc.project = resp'.request.project_id)
                => Len(resp'.body.custom_fields) = Len(b.loc.rows)]_vars

\* The rows of the Project table as the serializer shows them.
StoredProjects == {ProjectSerializer(projects, customFields, id) : id \in 1..Len(projects)}

\* C21: stored project data is disclosed only to authenticated callers.  A
\* get_projects response holds a row of the Project table only when the
\* request carried a Bearer token that validate_token accepted when the
\* request was served; without a header, or with a token that is expired,
\* tampered with or otherwise invalid, no stored row is in the response.
C21_ProjectsOnlyToAuthenticated ==
    (/\ resp.op = "get_projects"
     /\ \E k \in 1..Len(resp.body.data) : resp.body.data[k] \in StoredProjects)
    => /\ resp.request.auth_header # None
       /\ resp.request.auth_header.prefix = "Bearer "
       /\ validate_token_at(resp.request.auth_header.token, resp.at) # None


====
